---------------------------- MODULE Spec2Model ----------------------------
(***************************************************************************)
(* A model of the CAEP credential-change action (src/src/script.mjs): the  *)
(* three handlers invoke, error and halt, with the helpers transmitSET,    *)
(* parseSubject, parseReason and buildUrl.                                 *)
(*                                                                         *)
(* A JavaScript string is a sequence of one-character strings, so that     *)
(* startsWith, endsWith, slice, includes and template literals are         *)
(* computed character by character.  The other JavaScript values are       *)
(* records tagged by their type.                                           *)
(***************************************************************************)
EXTENDS Integers, Sequences, FiniteSets, TLC

(***************************************************************************)
(* Bounds of the model.                                                    *)
(***************************************************************************)
MaxSubjectLen == 4      \* subject strings have at most this many characters
MaxUrlLen == 2          \* address and addressSuffix strings, likewise
MaxTimestamp == 2       \* eventTimestamp ranges over -1 .. MaxTimestamp
MaxMessageLen == 4      \* messages handed to the error handler, likewise
ClockMs == 5000         \* Date.now() answers ClockMs - 1 or ClockMs

(***************************************************************************)
(* JavaScript values.                                                      *)
(***************************************************************************)
Undefined == [t |-> "undefined"]
Str(s) == [t |-> "string", v |-> s]
Num(n) == [t |-> "number", n |-> n]

\* ToBoolean, as `!x`, `x || y` and `if (x)` apply it.
Truthy(x) ==
  CASE x.t = "undefined" -> FALSE
    [] x.t = "string" -> x.v # <<>>
    [] x.t = "number" -> x.n # 0
    [] OTHER -> TRUE

\* String.prototype.startsWith
StartsWith(s, prefix) ==
  /\ Len(s) >= Len(prefix)
  /\ SubSeq(s, 1, Len(prefix)) = prefix

\* String.prototype.endsWith
EndsWith(s, suffix) ==
  /\ Len(s) >= Len(suffix)
  /\ SubSeq(s, Len(s) - Len(suffix) + 1, Len(s)) = suffix

\* String.prototype.includes: a scan over the start positions.
RECURSIVE IncludesFrom(_, _, _)
IncludesFrom(s, sub, i) ==
  IF i + Len(sub) - 1 > Len(s) THEN FALSE
  ELSE IF SubSeq(s, i, i + Len(sub) - 1) = sub THEN TRUE
  ELSE IncludesFrom(s, sub, i + 1)

Includes(s, sub) == IncludesFrom(s, sub, 1)

\* Array.prototype.join
RECURSIVE Join(_, _)
Join(list, sep) ==
  IF list = <<>> THEN <<>>
  ELSE IF Len(list) = 1 THEN list[1]
  ELSE list[1] \o sep \o Join(Tail(list), sep)

\* The decimal digits of a non-negative integer, as a template literal
\* `${n}` writes them.
DigitChar(d) ==
  CASE d = 0 -> "0" [] d = 1 -> "1" [] d = 2 -> "2" [] d = 3 -> "3"
    [] d = 4 -> "4" [] d = 5 -> "5" [] d = 6 -> "6" [] d = 7 -> "7"
    [] d = 8 -> "8" [] d = 9 -> "9"

RECURSIVE NumberToString(_)
NumberToString(n) ==
  IF n < 10 THEN <<DigitChar(n)>>
  ELSE NumberToString(n \div 10) \o <<DigitChar(n % 10)>>

(***************************************************************************)
(* JSON.parse, for the texts the model feeds it: texts over the characters *)
(* { } [ ] and the decimal digits (no white space, strings, literals,      *)
(* signs, fractions or exponents).  Over these characters the grammar is   *)
(*   value ::= digits | "{}" | "[]" | "[" value "]"                        *)
(* and the parser below is the recursive descent one.                      *)
(***************************************************************************)
Digits == {"0", "1", "2", "3", "4", "5", "6", "7", "8", "9"}

DigitValue(c) ==
  CASE c = "0" -> 0 [] c = "1" -> 1 [] c = "2" -> 2 [] c = "3" -> 3
    [] c = "4" -> 4 [] c = "5" -> 5 [] c = "6" -> 6 [] c = "7" -> 7
    [] c = "8" -> 8 [] c = "9" -> 9

\* The end of the run of digits that starts at i (a leading 0 stands alone).
RECURSIVE DigitsEnd(_, _)
DigitsEnd(s, i) ==
  IF i > Len(s) \/ s[i] \notin Digits THEN i
  ELSE DigitsEnd(s, i + 1)

RECURSIVE DigitsValue(_, _, _)
DigitsValue(s, i, j) ==
  IF j < i THEN 0
  ELSE 10 * DigitsValue(s, i, j - 1) + DigitValue(s[j])

ParseOk(v, next) == [ok |-> TRUE, val |-> v, next |-> next]
ParseFail(kind, pos) == [ok |-> FALSE, err |-> kind, pos |-> pos]

\* Parses one value starting at position i: the value and the position
\* after it, or the error: its position and what the parser was reading
\* ("end": the text ended; "property": no property name or } after {;
\* "element": no ] after an array element; "value": no value starts here).
RECURSIVE ParseValue(_, _)
ParseValue(s, i) ==
  IF i > Len(s) THEN ParseFail("end", i)
  ELSE IF s[i] \in Digits THEN
    LET j == IF s[i] = "0" THEN i + 1 ELSE DigitsEnd(s, i)
    IN  ParseOk(Num(DigitsValue(s, i, j - 1)), j)
  ELSE IF s[i] = "{" THEN
    IF i + 1 > Len(s) THEN ParseFail("end", i + 1)
    ELSE IF s[i + 1] = "}" THEN ParseOk([t |-> "object", members |-> <<>>], i + 2)
    ELSE ParseFail("property", i + 1)
  ELSE IF s[i] = "[" THEN
    IF i + 1 > Len(s) THEN ParseFail("end", i + 1)
    ELSE IF s[i + 1] = "]" THEN ParseOk([t |-> "array", items |-> <<>>], i + 2)
    ELSE LET r == ParseValue(s, i + 1)
         IN  IF ~r.ok THEN r
             ELSE IF r.next > Len(s) THEN ParseFail("end", r.next)
             ELSE IF s[r.next] = "]"
               THEN ParseOk([t |-> "array", items |-> <<r.val>>], r.next + 1)
             ELSE ParseFail("element", r.next)
  ELSE ParseFail("value", i)

\* JSON.parse(text): the value, or the error of the first offending place
\* ("after": characters follow the value).
JSONParse(text) ==
  LET r == ParseValue(text, 1)
  IN  IF r.ok /\ r.next <= Len(text) THEN ParseFail("after", r.next) ELSE r

\* The message of the SyntaxError JSON.parse throws.  ECMAScript leaves the
\* text to the engine; these are the texts of V8, which runs the action:
\* before Node 20 the message names the token and its position, since then
\* it names what was expected or quotes the token and the whole (short) text.
JSONErrorOld(text, r) ==
  IF r.err = "end"
    THEN <<"U", "n", "e", "x", "p", "e", "c", "t", "e", "d", " ", "e", "n", "d", " ", "o", "f", " ", "J", "S", "O", "N", " ", "i", "n", "p", "u", "t">>
  ELSE IF text[r.pos] \in Digits
    THEN <<"U", "n", "e", "x", "p", "e", "c", "t", "e", "d", " ", "n", "u", "m", "b", "e", "r", " ", "i", "n", " ", "J", "S", "O", "N", " ", "a", "t", " ", "p", "o", "s", "i", "t", "i", "o", "n", " ">>
         \o NumberToString(r.pos - 1)
  ELSE <<"U", "n", "e", "x", "p", "e", "c", "t", "e", "d", " ", "t", "o", "k", "e", "n", " ">>
       \o <<text[r.pos]>>
       \o <<" ", "i", "n", " ", "J", "S", "O", "N", " ", "a", "t", " ", "p", "o", "s", "i", "t", "i", "o", "n", " ">>
       \o NumberToString(r.pos - 1)

JSONErrorNew(text, r) ==
  CASE r.err = "end" ->
         <<"U", "n", "e", "x", "p", "e", "c", "t", "e", "d", " ", "e", "n", "d", " ", "o", "f", " ", "J", "S", "O", "N", " ", "i", "n", "p", "u", "t">>
    [] r.err = "after" ->
         <<"U", "n", "e", "x", "p", "e", "c", "t", "e", "d", " ", "n", "o", "n", "-", "w", "h", "i", "t", "e", "s", "p", "a", "c", "e", " ", "c", "h", "a", "r", "a", "c", "t", "e", "r", " ", "a", "f", "t", "e", "r", " ", "J", "S", "O", "N", " ", "a", "t", " ", "p", "o", "s", "i", "t", "i", "o", "n", " ">>
         \o NumberToString(r.pos - 1)
    [] r.err = "property" ->
         <<"E", "x", "p", "e", "c", "t", "e", "d", " ", "p", "r", "o", "p", "e", "r", "t", "y", " ", "n", "a", "m", "e", " ", "o", "r", " ", "'", "}", "'", " ", "i", "n", " ", "J", "S", "O", "N", " ", "a", "t", " ", "p", "o", "s", "i", "t", "i", "o", "n", " ">>
         \o NumberToString(r.pos - 1)
    [] r.err = "element" ->
         <<"E", "x", "p", "e", "c", "t", "e", "d", " ", "'", ",", "'", " ", "o", "r", " ", "'", "]", "'", " ", "a", "f", "t", "e", "r", " ", "a", "r", "r", "a", "y", " ", "e", "l", "e", "m", "e", "n", "t", " ", "i", "n", " ", "J", "S", "O", "N", " ", "a", "t", " ", "p", "o", "s", "i", "t", "i", "o", "n", " ">>
         \o NumberToString(r.pos - 1)
    [] r.err = "value" ->
         <<"U", "n", "e", "x", "p", "e", "c", "t", "e", "d", " ", "t", "o", "k", "e", "n", " ", "'">>
         \o <<text[r.pos]>>
         \o <<"'", ",", " ", "\"">>
         \o text
         \o <<"\"", " ", "i", "s", " ", "n", "o", "t", " ", "v", "a", "l", "i", "d", " ", "J", "S", "O", "N">>

\* The messages JSON.parse may throw on a text it rejects.
JSONErrorMessages(text) ==
  LET r == JSONParse(text)
  IN  IF r.ok THEN {} ELSE {JSONErrorOld(text, r), JSONErrorNew(text, r)}

\* An Error object.
Error(message) == [name |-> "Error", message |-> message]

(***************************************************************************)
(* The helpers of script.mjs.                                              *)
(***************************************************************************)
\* parseSubject: the outcomes of parsing the subject string, either the
\* parsed value or the Error thrown in its place.
parseSubject(subjectStr) ==
  LET r == JSONParse(subjectStr)
  IN  IF r.ok THEN {[threw |-> FALSE, value |-> r.val]}
      ELSE {[threw |-> TRUE,
             error |-> Error(<<"I", "n", "v", "a", "l", "i", "d", " ", "s", "u", "b", "j", "e", "c", "t", " ", "J", "S", "O", "N", ":", " ">> \o m)]
            : m \in JSONErrorMessages(subjectStr)}

\* parseReason: the parsed value when the string is JSON for a value whose
\* typeof is 'object' and that is not null, the string itself otherwise.
parseReason(reasonStr) ==
  IF ~Truthy(reasonStr) THEN reasonStr
  ELSE LET r == JSONParse(reasonStr.v)
       IN  IF r.ok /\ r.val.t \in {"object", "array"} THEN r.val
           ELSE reasonStr

\* A mutant of buildUrl: the two are joined with '/' as they are.
buildUrlUnstripped(address, suffix) ==
  IF ~Truthy(suffix) THEN address
  ELSE address \o <<"/">> \o suffix.v

\* buildUrl: address is a string, suffix a string or undefined.
buildUrl(address, suffix) ==
  IF ~Truthy(suffix) THEN address
  ELSE LET baseUrl == IF EndsWith(address, <<"/">>)
                        THEN SubSeq(address, 1, Len(address) - 1)
                        ELSE address
           cleanSuffix == IF StartsWith(suffix.v, <<"/">>)
                            THEN SubSeq(suffix.v, 2, Len(suffix.v))
                            ELSE suffix.v
       IN  baseUrl \o <<"/">> \o cleanSuffix

\* Event type constant
CREDENTIAL_CHANGE_EVENT ==
  <<"h", "t", "t", "p", "s", ":", "/", "/", "s", "c", "h", "e", "m", "a", "s", ".", "o", "p", "e", "n", "i", "d", ".", "n", "e", "t", "/", "s", "e", "c", "e", "v", "e", "n", "t", "/", "c", "a", "e", "p", "/", "e", "v", "e", "n", "t", "-", "t", "y", "p", "e", "/", "c", "r", "e", "d", "e", "n", "t", "i", "a", "l", "-", "c", "h", "a", "n", "g", "e">>

\* The validation of invoke (lines 100-137) throws the Error of the first
\* check that fails.  Each group of checks below answers the set of Errors
\* it may throw on these inputs: none when it passes, one when it fails,
\* and for the subject one for each text the engine may give its parse error.

\* Lines 100-114: the required parameters.
RequiredErrors(p) ==
  IF ~Truthy(p.audience)
    THEN {Error(<<"a", "u", "d", "i", "e", "n", "c", "e", " ", "i", "s", " ", "r", "e", "q", "u", "i", "r", "e", "d">>)}
  ELSE IF ~Truthy(p.subject)
    THEN {Error(<<"s", "u", "b", "j", "e", "c", "t", " ", "i", "s", " ", "r", "e", "q", "u", "i", "r", "e", "d">>)}
  ELSE IF ~Truthy(p.address)
    THEN {Error(<<"a", "d", "d", "r", "e", "s", "s", " ", "i", "s", " ", "r", "e", "q", "u", "i", "r", "e", "d">>)}
  ELSE IF ~Truthy(p.credentialType)
    THEN {Error(<<"c", "r", "e", "d", "e", "n", "t", "i", "a", "l", "T", "y", "p", "e", " ", "i", "s", " ", "r", "e", "q", "u", "i", "r", "e", "d">>)}
  ELSE IF ~Truthy(p.changeType)
    THEN {Error(<<"c", "h", "a", "n", "g", "e", "T", "y", "p", "e", " ", "i", "s", " ", "r", "e", "q", "u", "i", "r", "e", "d">>)}
  ELSE {}

\* A mutant of ChangeTypeErrors: the membership check is left out.
ChangeTypeErrorsNone(p) == {}

\* Lines 117-120: changeType is one of the valid change types.
ChangeTypeErrors(p) ==
  LET validChangeTypes ==
        <<<<"c", "r", "e", "a", "t", "e">>,
          <<"r", "e", "v", "o", "k", "e">>,
          <<"u", "p", "d", "a", "t", "e">>,
          <<"d", "e", "l", "e", "t", "e">>>>
  IN  IF \A i \in 1..Len(validChangeTypes) : p.changeType # Str(validChangeTypes[i])
        THEN {Error(<<"c", "h", "a", "n", "g", "e", "T", "y", "p", "e", " ", "m", "u", "s", "t", " ", "b", "e", " ", "o", "n", "e", " ", "o", "f", ":", " ">>
                    \o Join(validChangeTypes, <<",", " ">>))}
        ELSE {}

\* A mutant of SecretErrors: SSF_KEY_ID is checked before SSF_KEY.
SecretErrorsKeyIdFirst(secrets) ==
  IF ~Truthy(secrets.SSF_KEY_ID)
    THEN {Error(<<"S", "S", "F", "_", "K", "E", "Y", "_", "I", "D", " ", "s", "e", "c", "r", "e", "t", " ", "i", "s", " ", "r", "e", "q", "u", "i", "r", "e", "d">>)}
  ELSE IF ~Truthy(secrets.SSF_KEY)
    THEN {Error(<<"S", "S", "F", "_", "K", "E", "Y", " ", "s", "e", "c", "r", "e", "t", " ", "i", "s", " ", "r", "e", "q", "u", "i", "r", "e", "d">>)}
  ELSE {}

\* Lines 123-132: the secrets.
SecretErrors(secrets) ==
  IF ~Truthy(secrets.SSF_KEY)
    THEN {Error(<<"S", "S", "F", "_", "K", "E", "Y", " ", "s", "e", "c", "r", "e", "t", " ", "i", "s", " ", "r", "e", "q", "u", "i", "r", "e", "d">>)}
  ELSE IF ~Truthy(secrets.SSF_KEY_ID)
    THEN {Error(<<"S", "S", "F", "_", "K", "E", "Y", "_", "I", "D", " ", "s", "e", "c", "r", "e", "t", " ", "i", "s", " ", "r", "e", "q", "u", "i", "r", "e", "d">>)}
  ELSE {}

\* Line 137: the subject parses.
SubjectErrors(p) == {o.error : o \in {x \in parseSubject(p.subject.v) : x.threw}}

ValidationErrors(p, secrets) ==
  IF RequiredErrors(p) # {} THEN RequiredErrors(p)
  ELSE IF ChangeTypeErrors(p) # {} THEN ChangeTypeErrors(p)
  ELSE IF SecretErrors(secrets) # {} THEN SecretErrors(secrets)
  ELSE SubjectErrors(p)

\* A mutant of OptionalClaim: the key is set whatever the value.
OptionalClaimAlways(key, value) == key :> value

\* One optional event claim: the key with its value when the value is
\* truthy, nothing otherwise.
OptionalClaim(key, value) == IF Truthy(value) THEN key :> value ELSE <<>>

\* Lines 140-167 of invoke: the event payload, a mapping from its keys to
\* their values; nowMs is what Date.now() answers.
EventPayload(p, nowMs) ==
  ("event_timestamp" :> (IF Truthy(p.eventTimestamp) THEN p.eventTimestamp
                         ELSE Num(nowMs \div 1000)))
  @@ ("credential_type" :> p.credentialType)
  @@ ("change_type" :> p.changeType)
  @@ OptionalClaim("friendly_name", p.friendlyName)
  @@ OptionalClaim("x509_issuer", p.x509Issuer)
  @@ OptionalClaim("x509_serial", p.x509Serial)
  @@ OptionalClaim("fido2_aaguid", p.fido2AAGuid)
  @@ OptionalClaim("initiating_entity", p.initiatingEntity)
  @@ OptionalClaim("reason_admin", parseReason(p.reasonAdmin))
  @@ OptionalClaim("reason_user", parseReason(p.reasonUser))

\* Lines 135-136 and 170-185 of invoke: what the SET builder and its sign
\* method are given.
SetClaims(p, subjectValue, nowMs) ==
  [iss |-> IF Truthy(p.issuer) THEN p.issuer.v
           ELSE <<"h", "t", "t", "p", "s", ":", "/", "/", "s", "g", "n", "l", ".", "a", "i", "/">>,
   aud |-> p.audience.v,
   iat |-> nowMs \div 1000,
   sub_id |-> subjectValue,
   events |-> [type |-> CREDENTIAL_CHANGE_EVENT, payload |-> EventPayload(p, nowMs)]]

SigningKey(p, secrets) ==
  [key |-> secrets.SSF_KEY.v,
   alg |-> IF Truthy(p.signingMethod) THEN p.signingMethod.v
           ELSE <<"R", "S", "2", "5", "6">>,
   kid |-> secrets.SSF_KEY_ID.v]

\* A mutant of AuthorizationValue: the prefix is added whatever the token.
AuthorizationValueAlwaysPrefixed(authToken) ==
  <<"B", "e", "a", "r", "e", "r", " ">> \o authToken

\* Lines 19-21 of transmitSET: the Authorization header for a token.
AuthorizationValue(authToken) ==
  IF StartsWith(authToken, <<"B", "e", "a", "r", "e", "r", " ">>)
    THEN authToken
    ELSE <<"B", "e", "a", "r", "e", "r", " ">> \o authToken

\* Lines 12-22 of transmitSET: the request headers.
TransmitHeaders(options) ==
  ("Accept" :> <<"a", "p", "p", "l", "i", "c", "a", "t", "i", "o", "n", "/", "j", "s", "o", "n">>)
  @@ ("Content-Type" :> <<"a", "p", "p", "l", "i", "c", "a", "t", "i", "o", "n", "/", "s", "e", "c", "e", "v", "e", "n", "t", "+", "j", "w", "t">>)
  @@ ("User-Agent" :> (IF Truthy(options.userAgent) THEN options.userAgent.v
                       ELSE <<"S", "G", "N", "L", "-", "A", "c", "t", "i", "o", "n", "-", "F", "r", "a", "m", "e", "w", "o", "r", "k", "/", "1", ".", "0">>))
  @@ (IF Truthy(options.authToken)
        THEN "Authorization" :> AuthorizationValue(options.authToken.v)
        ELSE <<>>)

\* Response.ok of the fetch API: the status is in the range 200-299.
ResponseOk(response) == response.status >= 200 /\ response.status <= 299

\* A mutant of RetryableStatus: 500 counts as retryable too.
RetryableStatusWith500(status) == status \in {429, 500, 502, 503, 504}

\* Line 41 of transmitSET: the statuses that ask for a retry.
RetryableStatus(status) == status \in {429, 502, 503, 504}

\* Lines 30-48 of transmitSET: the outcome for a response, a value returned
\* or an Error thrown.
TransmitOutcome(response) ==
  LET retryable == IF ~ResponseOk(response)
                     THEN RetryableStatus(response.status)
                     ELSE FALSE
      result == [status |-> IF ResponseOk(response) THEN "success" ELSE "failed",
                 statusCode |-> response.status,
                 body |-> response.body,
                 retryable |-> retryable]
  IN  IF ~ResponseOk(response) /\ retryable
        THEN [kind |-> "raised",
              error |-> Error(<<"S", "E", "T", " ", "t", "r", "a", "n", "s", "m", "i", "s", "s", "i", "o", "n", " ", "f", "a", "i", "l", "e", "d", ":", " ">>
                              \o NumberToString(response.status) \o <<" ">> \o response.statusText)]
        ELSE [kind |-> "returned", value |-> result]

\* A mutant of ErrorOutcome: only '429' asks for a retry.
ErrorOutcomeOnly429(error) ==
  IF Includes(error.message, <<"4", "2", "9">>)
    THEN [kind |-> "returned", value |-> [status |-> "retry_requested"]]
    ELSE [kind |-> "raised", error |-> error]

\* The error handler: what it does with the error it is given.
ErrorOutcome(error) ==
  IF \/ Includes(error.message, <<"4", "2", "9">>)
     \/ Includes(error.message, <<"5", "0", "2">>)
     \/ Includes(error.message, <<"5", "0", "3">>)
     \/ Includes(error.message, <<"5", "0", "4">>)
    THEN [kind |-> "returned", value |-> [status |-> "retry_requested"]]
    ELSE [kind |-> "raised", error |-> error]

(***************************************************************************)
(* The inputs of the model.  Every family varies some fields together, all *)
(* their combinations, and leaves the others as in BaseParams and          *)
(* BaseContext, which pass the validation.                                 *)
(***************************************************************************)
\* The strings over chars of at most n characters.
Strings(chars, n) == UNION {[1..k -> chars] : k \in 0..n}

StringValues(chars, n) == {Str(s) : s \in Strings(chars, n)}

BaseParams ==
  [audience |-> Str(<<"a", "u", "d">>),
   subject |-> Str(<<"{", "}">>),
   address |-> Str(<<"a">>),
   credentialType |-> Str(<<"p", "w">>),
   changeType |-> Str(<<"r", "e", "v", "o", "k", "e">>),
   issuer |-> Undefined,
   signingMethod |-> Undefined,
   friendlyName |-> Undefined,
   x509Issuer |-> Undefined,
   x509Serial |-> Undefined,
   fido2AAGuid |-> Undefined,
   initiatingEntity |-> Undefined,
   reasonAdmin |-> Undefined,
   reasonUser |-> Undefined,
   eventTimestamp |-> Undefined,
   addressSuffix |-> Undefined,
   userAgent |-> Undefined]

BaseContext ==
  [secrets |-> [SSF_KEY |-> Str(<<"p", "e", "m">>),
                SSF_KEY_ID |-> Str(<<"k", "i", "d">>),
                AUTH_TOKEN |-> Undefined]]

Input(p, c) == [params |-> p, context |-> c]

\* A field is undefined, the empty string or a value.
Optional(value) == {Undefined, Str(<<>>), Str(value)}

\* The required parameters and secrets, each missing, empty or given.
ValidationInputs ==
  {Input([BaseParams EXCEPT !.audience = a, !.subject = sj, !.address = ad,
                            !.credentialType = ct, !.changeType = ch],
         [secrets |-> [SSF_KEY |-> k, SSF_KEY_ID |-> kid, AUTH_TOKEN |-> Undefined]]) :
     a \in Optional(<<"a", "u", "d">>),
     sj \in Optional(<<"{", "}">>) \cup {Str(<<"}">>)},
     ad \in Optional(<<"a">>),
     ct \in Optional(<<"p", "w">>),
     ch \in Optional(<<"r", "e", "v", "o", "k", "e">>) \cup {Str(<<"x">>)},
     k \in Optional(<<"p", "e", "m">>),
     kid \in Optional(<<"k", "i", "d">>)}

ChangeTypeInputs ==
  {Input([BaseParams EXCEPT !.changeType = Str(ch)], BaseContext) :
     ch \in {<<"c", "r", "e", "a", "t", "e">>,
             <<"r", "e", "v", "o", "k", "e">>,
             <<"u", "p", "d", "a", "t", "e">>,
             <<"d", "e", "l", "e", "t", "e">>,
             <<"C", "r", "e", "a", "t", "e">>,
             <<"c", "r", "e", "a", "t">>,
             <<"d", "e", "l", "e", "t", "e", "d">>}}

\* Every subject string of at most MaxSubjectLen characters over SubjectChars,
\* and some with an array.
SubjectChars == {"{", "}", "4", "2", "9"}

SubjectInputs ==
  {Input([BaseParams EXCEPT !.subject = sj], BaseContext) :
     sj \in StringValues(SubjectChars, MaxSubjectLen)
            \cup {Str(<<"[", "]">>), Str(<<"[", "4", "]">>), Str(<<"[", "4", "}">>)}}

\* Every address and suffix of at most MaxUrlLen characters over UrlChars.
UrlChars == {"a", "/"}

UrlInputs ==
  {Input([BaseParams EXCEPT !.address = ad, !.addressSuffix = sf], BaseContext) :
     ad \in StringValues(UrlChars, MaxUrlLen),
     sf \in StringValues(UrlChars, MaxUrlLen) \cup {Undefined}}

AuthTokens ==
  {Undefined, Str(<<>>), Str(<<"a", "b", "c">>),
   Str(<<"B", "e", "a", "r", "e", "r", " ", "a", "b", "c">>),
   Str(<<"B", "e", "a", "r", "e", "r", " ">>),
   Str(<<"B", "e", "a", "r", "e", "r">>),
   Str(<<"b", "e", "a", "r", "e", "r", " ", "a", "b", "c">>),
   Str(<<" ", "B", "e", "a", "r", "e", "r", " ", "a", "b", "c">>),
   Str(<<"B", "e", "a", "r", "e", "r", " ", "B", "e", "a", "r", "e", "r", " ", "a", "b", "c">>)}

AuthInputs ==
  {Input([BaseParams EXCEPT !.userAgent = ua],
         [BaseContext EXCEPT !.secrets.AUTH_TOKEN = tok]) :
     tok \in AuthTokens, ua \in Optional(<<"u", "a">>)}

\* The optional event claims, each given or not, all combinations; each in
\* turn empty; the reasons as JSON texts; the timestamps; issuer and
\* signing method.
ReasonValues ==
  {Str(<<"{", "}">>), Str(<<"[", "]">>), Str(<<"[", "4", "]">>),
   Str(<<"4">>), Str(<<"{">>), Str(<<"n", "o">>)}

PayloadInputs ==
  {Input([BaseParams EXCEPT !.friendlyName = f, !.x509Issuer = xi, !.x509Serial = xs,
                            !.fido2AAGuid = fg, !.initiatingEntity = ie,
                            !.reasonAdmin = ra, !.reasonUser = ru], BaseContext) :
     f \in {Undefined, Str(<<"f">>)}, xi \in {Undefined, Str(<<"x", "i">>)},
     xs \in {Undefined, Str(<<"x", "s">>)}, fg \in {Undefined, Str(<<"f", "g">>)},
     ie \in {Undefined, Str(<<"i", "e">>)}, ra \in {Undefined, Str(<<"r", "a">>)},
     ru \in {Undefined, Str(<<"r", "u">>)}}
  \cup
  {Input([BaseParams EXCEPT ![k] = Str(<<>>)], BaseContext) :
     k \in {"friendlyName", "x509Issuer", "x509Serial", "fido2AAGuid",
            "initiatingEntity", "reasonAdmin", "reasonUser"}}
  \cup
  {Input([BaseParams EXCEPT !.reasonAdmin = ra, !.reasonUser = ru], BaseContext) :
     ra \in ReasonValues, ru \in {Undefined, Str(<<"{", "}">>), Str(<<"r", "u">>)}}
  \cup
  {Input([BaseParams EXCEPT !.eventTimestamp = Num(ts), !.friendlyName = f], BaseContext) :
     ts \in -1..MaxTimestamp, f \in {Undefined, Str(<<"f">>)}}
  \cup
  {Input([BaseParams EXCEPT !.issuer = iss, !.signingMethod = alg], BaseContext) :
     iss \in Optional(<<"i", "s", "s">>), alg \in Optional(<<"E", "S", "2", "5", "6">>)}

Inputs ==
  ValidationInputs \cup ChangeTypeInputs \cup SubjectInputs \cup UrlInputs
  \cup AuthInputs \cup PayloadInputs

\* What Date.now() may answer, in milliseconds.
ClockReadings == (ClockMs - 1)..ClockMs

\* The responses of the receiver.
StatusCodes == {200, 204, 299, 300, 400, 428, 429, 430, 500, 502, 503, 504, 505}

Responses ==
  {[received |-> TRUE, status |-> s, statusText |-> tb[1], body |-> tb[2]] :
     s \in StatusCodes,
     tb \in {<<<<"E", "r", "r", "o", "r">>, <<"O", "K">>>>, <<<<>>, <<>>>>}}

\* The errors the framework may hand to the error handler besides those
\* invoke raised: every message of at most MaxMessageLen characters over
\* MessageChars, and those of the handler's tests.
MessageChars == {"4", "2", "9", "5", "0", "3"}

ErrorInputs ==
  {Error(m) : m \in Strings(MessageChars, MaxMessageLen)}
  \cup {[message |-> <<"E", "r", "r", "o", "r", " ", "5", "0", "3", ":", " ", "S", "e", "r", "v", "e", "r", " ", "e", "r", "r", "o", "r">>],
        Error(<<"I", "n", "v", "a", "l", "i", "d", " ", "c", "r", "e", "d", "e", "n", "t", "i", "a", "l", "s">>)}

(***************************************************************************)
(* The state: one job of the framework, which calls invoke, hands a raised *)
(* error to the error handler, calls invoke again when the handler asks    *)
(* for a retry, and may call halt.                                         *)
(***************************************************************************)
VARIABLES
  pc,        \* where the job is: "idle", "signing" (invoke awaits builder.sign),
             \* "fetching" (invoke awaits fetch), "returned", "raised"
             \* (invoke ended), "handled" (the error handler ended), "halted"
  params,    \* the params of the current invoke call
  context,   \* its context
  set,       \* what the call gave the SET builder
  requests,  \* the HTTP requests the call has issued, in order
  response,  \* the response the call received
  result,    \* what the call returned or raised
  errIn,     \* the error given to the error handler
  errOut,    \* what the error handler returned or raised
  haltOut    \* what halt returned

vars == <<pc, params, context, set, requests, response, result, errIn, errOut, haltOut>>

None == [kind |-> "none"]
NoSet == [built |-> FALSE]
NoResponse == [received |-> FALSE]
NoParams == [k \in DOMAIN BaseParams |-> Undefined]
NoContext == [secrets |-> [SSF_KEY |-> Undefined, SSF_KEY_ID |-> Undefined,
                           AUTH_TOKEN |-> Undefined]]

Init ==
  /\ pc = "idle"
  /\ params = NoParams
  /\ context = NoContext
  /\ set = NoSet
  /\ requests = <<>>
  /\ response = NoResponse
  /\ result = None
  /\ errIn = None
  /\ errOut = None
  /\ haltOut = None

\* invoke, lines 98-187, up to its first await: the validation, then the
\* payload and the SET handed to the builder.
InvokeCall(p, ctx, nowMs) ==
  /\ params' = p
  /\ context' = ctx
  /\ requests' = <<>>
  /\ response' = NoResponse
  /\ errIn' = None
  /\ errOut' = None
  /\ UNCHANGED haltOut
  /\ IF ValidationErrors(p, ctx.secrets) # {}
       THEN /\ \E e \in ValidationErrors(p, ctx.secrets) :
                 result' = [kind |-> "raised", error |-> e]
            /\ pc' = "raised"
            /\ set' = NoSet
       ELSE /\ \E o \in parseSubject(p.subject.v) :
                 set' = [built |-> TRUE,
                         claims |-> SetClaims(p, o.value, nowMs),
                         signingKey |-> SigningKey(p, ctx.secrets)]
            /\ pc' = "signing"
            /\ result' = None

\* The framework calls invoke.
Invoke ==
  /\ pc = "idle"
  /\ \E in \in Inputs, nowMs \in ClockReadings :
       InvokeCall(in.params, in.context, nowMs)

\* The framework calls invoke again, with the same params and context, after
\* the error handler asked for a retry.
Retry ==
  /\ pc = "handled"
  /\ errOut = [kind |-> "returned", value |-> [status |-> "retry_requested"]]
  /\ result.kind = "raised"
  /\ \E nowMs \in ClockReadings : InvokeCall(params, context, nowMs)

\* createPrivateKey throws or builder.sign rejects (lines 180-187): invoke
\* raises the collaborator's error.
SignFails ==
  /\ pc = "signing"
  /\ result' = [kind |-> "raised",
                error |-> Error(<<"s", "i", "g", "n", "i", "n", "g", " ", "f", "a", "i", "l", "e", "d">>)]
  /\ pc' = "raised"
  /\ UNCHANGED <<params, context, set, requests, response, errIn, errOut, haltOut>>

\* The compact JWT builder.sign answers: the claims under the key's
\* algorithm and key id.
Jwt(s) == [claims |-> s.claims, alg |-> s.signingKey.alg, kid |-> s.signingKey.kid]

\* The request transmitSET hands to fetch (lines 12-28).
TransmitRequest(jwt, url, options) ==
  [method |-> "POST", url |-> url, headers |-> TransmitHeaders(options), body |-> jwt]

\* builder.sign answers the token (line 187): invoke builds the URL and
\* transmitSET issues the request (lines 190-196, 12-28).
SignSucceeds ==
  /\ pc = "signing"
  /\ requests' = Append(requests,
                        TransmitRequest(Jwt(set),
                                        buildUrl(params.address.v, params.addressSuffix),
                                        [authToken |-> context.secrets.AUTH_TOKEN,
                                         userAgent |-> params.userAgent]))
  /\ pc' = "fetching"
  /\ UNCHANGED <<params, context, set, response, result, errIn, errOut, haltOut>>

\* A mutant of FetchResponds: transmitSET sends the request again itself
\* when the status asks for a retry.
FetchRespondsRetrying(resp) ==
  /\ pc = "fetching"
  /\ IF TransmitOutcome(resp).kind = "raised" /\ Len(requests) < 2
       THEN /\ requests' = Append(requests, requests[1])
            /\ UNCHANGED <<pc, response, result>>
       ELSE /\ response' = resp
            /\ result' = TransmitOutcome(resp)
            /\ pc' = IF TransmitOutcome(resp).kind = "raised" THEN "raised" ELSE "returned"
            /\ UNCHANGED requests
  /\ UNCHANGED <<params, context, set, errIn, errOut, haltOut>>

\* fetch answers a response and its body is read (lines 24-48): transmitSET
\* returns or throws, and so does invoke.
FetchResponds(resp) ==
  /\ pc = "fetching"
  /\ response' = resp
  /\ result' = TransmitOutcome(resp)
  /\ pc' = IF TransmitOutcome(resp).kind = "raised" THEN "raised" ELSE "returned"
  /\ UNCHANGED <<params, context, set, requests, errIn, errOut, haltOut>>

\* fetch rejects (no connection): the transport's error passes through.
FetchFails ==
  /\ pc = "fetching"
  /\ result' = [kind |-> "raised",
                error |-> [name |-> "TypeError",
                           message |-> <<"f", "e", "t", "c", "h", " ", "f", "a", "i", "l", "e", "d">>]]
  /\ pc' = "raised"
  /\ UNCHANGED <<params, context, set, requests, response, errIn, errOut, haltOut>>

\* The error handler (export error, lines 202-215) called with error e.
ErrorCall(e) ==
  /\ errIn' = e
  /\ errOut' = ErrorOutcome(e)
  /\ pc' = "handled"
  /\ UNCHANGED <<params, context, set, requests, response, result, haltOut>>

\* The framework hands the error invoke raised to the error handler.
ErrorAfterInvoke ==
  /\ pc = "raised"
  /\ ErrorCall(result.error)

\* The framework hands an error of its own to the error handler.
ErrorAlone ==
  /\ pc = "idle"
  /\ \E e \in ErrorInputs : ErrorCall(e)

\* halt (lines 220-222).
Halt ==
  /\ pc = "idle"
  /\ haltOut' = [kind |-> "returned", value |-> [status |-> "halted"]]
  /\ pc' = "halted"
  /\ UNCHANGED <<params, context, set, requests, response, result, errIn, errOut>>

\* The job is over; the framework starts the next one.
Finish ==
  /\ pc \in {"returned", "raised", "handled", "halted"}
  /\ pc' = "idle"
  /\ params' = NoParams
  /\ context' = NoContext
  /\ set' = NoSet
  /\ requests' = <<>>
  /\ response' = NoResponse
  /\ result' = None
  /\ errIn' = None
  /\ errOut' = None
  /\ haltOut' = None

Next ==
  \/ Invoke
  \/ Retry
  \/ SignFails
  \/ SignSucceeds
  \/ \E resp \in Responses : FetchResponds(resp)
  \/ FetchFails
  \/ ErrorAfterInvoke
  \/ ErrorAlone
  \/ Halt
  \/ Finish

Spec == Init /\ [][Next]_vars

(***************************************************************************)
(* Concurrent calls.  invoke is an async function and the framework may    *)
(* start a call while others await builder.sign or fetch; the module keeps *)
(* no variable besides the constant CREDENTIAL_CHANGE_EVENT, so all a call *)
(* reads is its own arguments, its own locals, the clock and the answers   *)
(* to its own awaits.  In this second specification every variable but     *)
(* haltOut holds one value per call: pc[c] is the position of call c,      *)
(* params[c] its params, and so on.  The positions are "idle", "rejected"  *)
(* (validation threw), "signing", "signFailed", "fetching", "fetchFailed"  *)
(* and "responded"; errOut[c] is set once the error handler got the call's *)
(* error.                                                                  *)
(***************************************************************************)
NumCalls == 2           \* the calls that may be in flight together

Calls == 1..NumCalls

\* What the framework hands the concurrent calls: a call without a token,
\* one with a token, another receiver and a user agent, one whose signing
\* key is missing.
ConcInputs ==
  {Input(BaseParams, BaseContext),
   Input([BaseParams EXCEPT !.address = Str(<<"b">>), !.userAgent = Str(<<"u">>)],
         [BaseContext EXCEPT !.secrets.AUTH_TOKEN = Str(<<"t">>)]),
   Input(BaseParams, [BaseContext EXCEPT !.secrets.SSF_KEY = Undefined])}

ConcResponses == {r \in Responses : r.status \in {200, 503} /\ r.statusText = <<>>}

ConcInit ==
  /\ pc = [c \in Calls |-> "idle"]
  /\ params = [c \in Calls |-> NoParams]
  /\ context = [c \in Calls |-> NoContext]
  /\ set = [c \in Calls |-> NoSet]
  /\ requests = [c \in Calls |-> <<>>]
  /\ response = [c \in Calls |-> NoResponse]
  /\ result = [c \in Calls |-> None]
  /\ errIn = [c \in Calls |-> None]
  /\ errOut = [c \in Calls |-> None]
  /\ haltOut = None

\* A mutant of ConcOptions: the options are kept in one object all the
\* calls share, and the token of a call in flight stays in it.
ConcOptionsShared(c) ==
  LET holders == {d \in Calls : pc[d] # "idle" /\ Truthy(context[d].secrets.AUTH_TOKEN)}
  IN  [authToken |-> IF holders = {} THEN context[c].secrets.AUTH_TOKEN
                     ELSE context[CHOOSE d \in holders : TRUE].secrets.AUTH_TOKEN,
       userAgent |-> params[c].userAgent]

\* The options call c hands to transmitSET (lines 193-196): an object
\* literal of its own, from its own context and params.
ConcOptions(c) ==
  [authToken |-> context[c].secrets.AUTH_TOKEN, userAgent |-> params[c].userAgent]

\* Call c starts (lines 98-187, up to the first await).
ConcInvoke(c) ==
  /\ pc[c] = "idle"
  /\ \E in \in ConcInputs, nowMs \in ClockReadings :
       /\ params' = [params EXCEPT ![c] = in.params]
       /\ context' = [context EXCEPT ![c] = in.context]
       /\ IF ValidationErrors(in.params, in.context.secrets) # {}
            THEN /\ \E e \in ValidationErrors(in.params, in.context.secrets) :
                      result' = [result EXCEPT ![c] = [kind |-> "raised", error |-> e]]
                 /\ pc' = [pc EXCEPT ![c] = "rejected"]
                 /\ UNCHANGED set
            ELSE /\ \E o \in parseSubject(in.params.subject.v) :
                      set' = [set EXCEPT ![c] =
                                [built |-> TRUE,
                                 claims |-> SetClaims(in.params, o.value, nowMs),
                                 signingKey |-> SigningKey(in.params, in.context.secrets)]]
                 /\ pc' = [pc EXCEPT ![c] = "signing"]
                 /\ UNCHANGED result
  /\ UNCHANGED <<requests, response, errIn, errOut, haltOut>>

\* createPrivateKey throws or builder.sign rejects for call c (lines 180-187).
ConcSignFails(c) ==
  /\ pc[c] = "signing"
  /\ result' = [result EXCEPT ![c] =
                  [kind |-> "raised",
                   error |-> Error(<<"s", "i", "g", "n", "i", "n", "g", " ", "f", "a", "i", "l", "e", "d">>)]]
  /\ pc' = [pc EXCEPT ![c] = "signFailed"]
  /\ UNCHANGED <<params, context, set, requests, response, errIn, errOut, haltOut>>

\* builder.sign answers call c its token: the call builds its URL and
\* transmitSET issues its request (lines 187-196, 12-28).
ConcSignSucceeds(c) ==
  /\ pc[c] = "signing"
  /\ requests' = [requests EXCEPT ![c] =
                    Append(@, TransmitRequest(Jwt(set[c]),
                                              buildUrl(params[c].address.v,
                                                       params[c].addressSuffix),
                                              ConcOptions(c)))]
  /\ pc' = [pc EXCEPT ![c] = "fetching"]
  /\ UNCHANGED <<params, context, set, response, result, errIn, errOut, haltOut>>

\* fetch answers call c (lines 24-48).
ConcFetchResponds(c, resp) ==
  /\ pc[c] = "fetching"
  /\ response' = [response EXCEPT ![c] = resp]
  /\ result' = [result EXCEPT ![c] = TransmitOutcome(resp)]
  /\ pc' = [pc EXCEPT ![c] = "responded"]
  /\ UNCHANGED <<params, context, set, requests, errIn, errOut, haltOut>>

\* fetch rejects for call c.
ConcFetchFails(c) ==
  /\ pc[c] = "fetching"
  /\ result' = [result EXCEPT ![c] =
                  [kind |-> "raised",
                   error |-> [name |-> "TypeError",
                              message |-> <<"f", "e", "t", "c", "h", " ", "f", "a", "i", "l", "e", "d">>]]]
  /\ pc' = [pc EXCEPT ![c] = "fetchFailed"]
  /\ UNCHANGED <<params, context, set, requests, response, errIn, errOut, haltOut>>

\* The framework hands the error call c raised to the error handler
\* (lines 202-215), while other calls are in flight.
ConcError(c) ==
  /\ pc[c] \in {"rejected", "signFailed", "fetchFailed", "responded"}
  /\ result[c].kind = "raised"
  /\ errOut[c] = None
  /\ errIn' = [errIn EXCEPT ![c] = result[c].error]
  /\ errOut' = [errOut EXCEPT ![c] = ErrorOutcome(result[c].error)]
  /\ UNCHANGED <<pc, params, context, set, requests, response, result, haltOut>>

\* The framework calls halt (lines 220-222), while calls are in flight.
ConcHalt ==
  /\ haltOut = None
  /\ haltOut' = [kind |-> "returned", value |-> [status |-> "halted"]]
  /\ UNCHANGED <<pc, params, context, set, requests, response, result, errIn, errOut>>

\* Call c is over and its locals are gone; the framework may start another.
ConcFinish(c) ==
  /\ pc[c] \in {"rejected", "signFailed", "fetchFailed", "responded"}
  /\ pc' = [pc EXCEPT ![c] = "idle"]
  /\ params' = [params EXCEPT ![c] = NoParams]
  /\ context' = [context EXCEPT ![c] = NoContext]
  /\ set' = [set EXCEPT ![c] = NoSet]
  /\ requests' = [requests EXCEPT ![c] = <<>>]
  /\ response' = [response EXCEPT ![c] = NoResponse]
  /\ result' = [result EXCEPT ![c] = None]
  /\ errIn' = [errIn EXCEPT ![c] = None]
  /\ errOut' = [errOut EXCEPT ![c] = None]
  /\ UNCHANGED haltOut

ConcNext ==
  \/ \E c \in Calls : ConcInvoke(c)
  \/ \E c \in Calls : ConcSignFails(c)
  \/ \E c \in Calls : ConcSignSucceeds(c)
  \/ \E c \in Calls, resp \in ConcResponses : ConcFetchResponds(c, resp)
  \/ \E c \in Calls : ConcFetchFails(c)
  \/ \E c \in Calls : ConcError(c)
  \/ ConcHalt
  \/ \E c \in Calls : ConcFinish(c)

SpecConc == ConcInit /\ [][ConcNext]_vars

(***************************************************************************)
(* The properties.                                                         *)
(***************************************************************************)
\* An invoke call has been made in this job and params, context, set,
\* requests, response and result are those of its latest call.
InvokeCalled ==
  \/ pc \in {"signing", "fetching", "returned", "raised"}
  \/ pc = "handled" /\ result.kind = "raised"

\* A parameter or secret is absent (undefined) or empty.
Absent(x) == x = Undefined \/ x = Str(<<>>)

AllowedChangeTypes ==
  {Str(<<"c", "r", "e", "a", "t", "e">>),
   Str(<<"r", "e", "v", "o", "k", "e">>),
   Str(<<"u", "p", "d", "a", "t", "e">>),
   Str(<<"d", "e", "l", "e", "t", "e">>)}

\* The inputs violate a validation rule.
ViolatesValidation(p, secrets) ==
  \/ Absent(p.audience) \/ Absent(p.subject) \/ Absent(p.address)
  \/ Absent(p.credentialType) \/ Absent(p.changeType)
  \/ p.changeType \notin AllowedChangeTypes
  \/ Absent(secrets.SSF_KEY) \/ Absent(secrets.SSF_KEY_ID)
  \/ ~JSONParse(p.subject.v).ok

\* C1: every invoke call whose inputs violate a validation rule ends by
\* raising an error, and has issued no HTTP request at any point.
C1_InvalidInputsRaiseWithoutRequest ==
  (InvokeCalled /\ ViolatesValidation(params, context.secrets))
    => /\ pc \in {"raised", "handled"}
       /\ result.kind = "raised"
       /\ requests = <<>>
       /\ response = NoResponse

\* An invoke call whose only violation is a subject that is not JSON ended
\* by raising, with no request issued.
C1_Witness ==
  /\ pc = "raised"
  /\ params.subject = Str(<<"}", "4">>)
  /\ ~ViolatesValidation([params EXCEPT !.subject = Str(<<"4">>)], context.secrets)
  /\ requests = <<>>

RequiredMessage(field) == field \o <<" ", "i", "s", " ", "r", "e", "q", "u", "i", "r", "e", "d">>

\* C2: when several validation rules are violated at once, the error raised
\* is that of the first violated rule in the order audience, subject,
\* address, credentialType, changeType present, changeType allowed, SSF_KEY,
\* SSF_KEY_ID present, subject parses; with the stated messages.
C2_FirstViolatedRuleDecidesMessage ==
  (InvokeCalled /\ ViolatesValidation(params, context.secrets))
    => /\ result.kind = "raised"
       /\ LET m == result.error.message
          IN  IF Absent(params.audience)
                THEN m = RequiredMessage(<<"a", "u", "d", "i", "e", "n", "c", "e">>)
              ELSE IF Absent(params.subject)
                THEN m = RequiredMessage(<<"s", "u", "b", "j", "e", "c", "t">>)
              ELSE IF Absent(params.address)
                THEN m = RequiredMessage(<<"a", "d", "d", "r", "e", "s", "s">>)
              ELSE IF Absent(params.credentialType)
                THEN m = RequiredMessage(<<"c", "r", "e", "d", "e", "n", "t", "i", "a", "l", "T", "y", "p", "e">>)
              ELSE IF Absent(params.changeType)
                THEN m = RequiredMessage(<<"c", "h", "a", "n", "g", "e", "T", "y", "p", "e">>)
              ELSE IF params.changeType \notin AllowedChangeTypes
                THEN m = <<"c", "h", "a", "n", "g", "e", "T", "y", "p", "e", " ", "m", "u", "s", "t", " ", "b", "e", " ", "o", "n", "e", " ", "o", "f", ":", " ", "c", "r", "e", "a", "t", "e", ",", " ", "r", "e", "v", "o", "k", "e", ",", " ", "u", "p", "d", "a", "t", "e", ",", " ", "d", "e", "l", "e", "t", "e">>
              ELSE IF Absent(context.secrets.SSF_KEY)
                THEN m = <<"S", "S", "F", "_", "K", "E", "Y", " ", "s", "e", "c", "r", "e", "t", " ", "i", "s", " ", "r", "e", "q", "u", "i", "r", "e", "d">>
              ELSE IF Absent(context.secrets.SSF_KEY_ID)
                THEN m = <<"S", "S", "F", "_", "K", "E", "Y", "_", "I", "D", " ", "s", "e", "c", "r", "e", "t", " ", "i", "s", " ", "r", "e", "q", "u", "i", "r", "e", "d">>
              ELSE /\ Len(m) > Len(<<"I", "n", "v", "a", "l", "i", "d", " ", "s", "u", "b", "j", "e", "c", "t", " ", "J", "S", "O", "N", ":", " ">>)
                   /\ SubSeq(m, 1, Len(<<"I", "n", "v", "a", "l", "i", "d", " ", "s", "u", "b", "j", "e", "c", "t", " ", "J", "S", "O", "N", ":", " ">>))
                        = <<"I", "n", "v", "a", "l", "i", "d", " ", "s", "u", "b", "j", "e", "c", "t", " ", "J", "S", "O", "N", ":", " ">>
                   /\ SubSeq(m, Len(<<"I", "n", "v", "a", "l", "i", "d", " ", "s", "u", "b", "j", "e", "c", "t", " ", "J", "S", "O", "N", ":", " ">>) + 1, Len(m))
                        \in JSONErrorMessages(params.subject.v)

\* A call that violates four rules at once (changeType not allowed, both
\* secrets missing, subject not JSON) raised the changeType message.
C2_Witness ==
  /\ pc = "raised"
  /\ ~Absent(params.audience) /\ ~Absent(params.address)
  /\ ~Absent(params.credentialType)
  /\ params.subject = Str(<<"}">>)
  /\ params.changeType = Str(<<"x">>)
  /\ Absent(context.secrets.SSF_KEY)
  /\ Absent(context.secrets.SSF_KEY_ID)
  /\ result.error.message = <<"c", "h", "a", "n", "g", "e", "T", "y", "p", "e", " ", "m", "u", "s", "t", " ", "b", "e", " ", "o", "n", "e", " ", "o", "f", ":", " ", "c", "r", "e", "a", "t", "e", ",", " ", "r", "e", "v", "o", "k", "e", ",", " ", "u", "p", "d", "a", "t", "e", ",", " ", "d", "e", "l", "e", "t", "e">>

\* The digits of the four retryable status codes.
RetryableStatusText(s) ==
  CASE s = 429 -> <<"4", "2", "9">>
    [] s = 502 -> <<"5", "0", "2">>
    [] s = 503 -> <<"5", "0", "3">>
    [] s = 504 -> <<"5", "0", "4">>

\* C3: the outcome of a call that received a response is decided by the
\* status alone: 2xx returns success, 429, 502, 503 and 504 raise
\* 'SET transmission failed: <s> <t>', any other status returns failed; a
\* returned result never has retryable true.
C3_StatusDecidesOutcome ==
  /\ response.received =>
       IF response.status >= 200 /\ response.status <= 299
         THEN result = [kind |-> "returned",
                        value |-> [status |-> "success", statusCode |-> response.status,
                                   body |-> response.body, retryable |-> FALSE]]
       ELSE IF response.status \in {429, 502, 503, 504}
         THEN result = [kind |-> "raised",
                        error |-> [name |-> "Error",
                                   message |-> <<"S", "E", "T", " ", "t", "r", "a", "n", "s", "m", "i", "s", "s", "i", "o", "n", " ", "f", "a", "i", "l", "e", "d", ":", " ">>
                                               \o RetryableStatusText(response.status)
                                               \o <<" ">> \o response.statusText]]
       ELSE result = [kind |-> "returned",
                      value |-> [status |-> "failed", statusCode |-> response.status,
                                 body |-> response.body, retryable |-> FALSE]]
  /\ result.kind = "returned" => result.value.retryable = FALSE

\* A call received 503 and raised; it returned nothing.
C3_Witness ==
  /\ response.received
  /\ response.status = 503
  /\ response.statusText = <<"E", "r", "r", "o", "r">>
  /\ pc = "raised"
  /\ result.kind = "raised"

\* C4: a call never issues more than one HTTP POST, whatever the response or
\* transport failure, and has issued exactly one once validation and
\* signing have succeeded (none before).
C4_AtMostOnePostPerCall ==
  /\ Len(requests) <= 1
  /\ \A i \in 1..Len(requests) : requests[i].method = "POST"
  /\ (pc \in {"fetching", "returned"} \/ response.received) => Len(requests) = 1
  /\ pc \in {"idle", "signing", "halted"} => requests = <<>>

\* A call received 429 and raised, having issued one request.
C4_Witness ==
  /\ pc = "raised"
  /\ response.received
  /\ response.status = 429
  /\ Len(requests) = 1

\* The message has one of the four substrings at some position.
HasRetryableSubstring(m) ==
  \E i \in 1..Len(m) :
    /\ i + 2 <= Len(m)
    /\ <<m[i], m[i + 1], m[i + 2]>> \in
         {<<"4", "2", "9">>, <<"5", "0", "2">>, <<"5", "0", "3">>, <<"5", "0", "4">>}

\* C5: the error handler returns {status: 'retry_requested'} exactly when
\* the message of the error contains '429', '502', '503' or '504';
\* otherwise it raises the error it was given, unchanged; it issues no
\* request.
C5_HandlerState ==
  pc = "handled" =>
    IF HasRetryableSubstring(errIn.message)
      THEN errOut = [kind |-> "returned", value |-> [status |-> "retry_requested"]]
      ELSE errOut = [kind |-> "raised", error |-> errIn]

C5_HandlerStep ==
  (pc # "handled" /\ pc' = "handled") => (requests' = requests /\ response' = response)

C5_ErrorHandlerClassifies == []C5_HandlerState /\ [][C5_HandlerStep]_vars

\* The handler was given an error without any of the substrings, although
\* with their digits, and raised it again.
C5_Witness ==
  /\ pc = "handled"
  /\ errIn = Error(<<"4", "2", "5", "0">>)
  /\ errOut = [kind |-> "raised", error |-> errIn]

\* C6: a validation error handed to the error handler is raised again, never
\* answered by {status: 'retry_requested'}, for every subject string.
C6_ValidationErrorsNotRetryable ==
  (pc = "handled" /\ result.kind = "raised"
     /\ ViolatesValidation(params, context.secrets))
    => errOut = [kind |-> "raised", error |-> result.error]

\* C7: the URL of the request is the address when the suffix is absent, and
\* otherwise the address less one trailing '/', a '/', and the suffix less
\* one leading '/'.
C7_UrlIsAddressSlashSuffix ==
  \A i \in 1..Len(requests) :
    LET a == params.address.v
        u == requests[i].url
    IN  IF Absent(params.addressSuffix) THEN u = a
        ELSE LET sf == params.addressSuffix.v
                 k == IF a[Len(a)] = "/" THEN 1 ELSE 0
                 j == IF sf[1] = "/" THEN 1 ELSE 0
             IN  /\ Len(u) = (Len(a) - k) + 1 + (Len(sf) - j)
                 /\ \A n \in 1..(Len(a) - k) : u[n] = a[n]
                 /\ u[Len(a) - k + 1] = "/"
                 /\ \A n \in 1..(Len(sf) - j) : u[Len(a) - k + 1 + n] = sf[j + n]

\* A request went to an address that ends with '/' and a suffix that starts
\* with '/'.
C7_Witness ==
  /\ Len(requests) = 1
  /\ params.address = Str(<<"a", "/">>)
  /\ params.addressSuffix = Str(<<"/", "a">>)
  /\ requests[1].url = <<"a", "/", "a">>

BearerText == <<"B", "e", "a", "r", "e", "r", " ">>

HasBearerPrefix(tok) ==
  Len(tok) >= Len(BearerText) /\ \A n \in 1..Len(BearerText) : tok[n] = BearerText[n]

\* C8: the request has no Authorization header when AUTH_TOKEN is absent;
\* otherwise the header is AUTH_TOKEN itself when it begins with 'Bearer ',
\* and 'Bearer ' followed by AUTH_TOKEN when not; so the header begins with
\* one 'Bearer ' the rule would not add again.
C8_AuthorizationHeader ==
  \A i \in 1..Len(requests) :
    LET tok == context.secrets.AUTH_TOKEN
        h == requests[i].headers
    IN  IF Absent(tok) THEN "Authorization" \notin DOMAIN h
        ELSE /\ "Authorization" \in DOMAIN h
             /\ h["Authorization"] = (IF HasBearerPrefix(tok.v) THEN tok.v
                                      ELSE BearerText \o tok.v)
             /\ HasBearerPrefix(h["Authorization"])
             /\ HasBearerPrefix(tok.v) => h["Authorization"] = tok.v

\* A request was sent with an AUTH_TOKEN that already had the prefix.
C8_Witness ==
  /\ Len(requests) = 1
  /\ context.secrets.AUTH_TOKEN = Str(<<"B", "e", "a", "r", "e", "r", " ", "a", "b", "c">>)
  /\ requests[1].headers["Authorization"] = <<"B", "e", "a", "r", "e", "r", " ", "a", "b", "c">>

OptionalKeys ==
  [friendlyName |-> "friendly_name", x509Issuer |-> "x509_issuer",
   x509Serial |-> "x509_serial", fido2AAGuid |-> "fido2_aaguid",
   initiatingEntity |-> "initiating_entity", reasonAdmin |-> "reason_admin",
   reasonUser |-> "reason_user"]

\* C9: the payload has credential_type and change_type as validated, has the
\* key of an optional parameter exactly when the parameter is truthy, has
\* no key with an undefined value and no other key.
C9_PayloadKeys ==
  set.built =>
    LET payload == set.claims.events.payload
    IN  /\ payload["credential_type"] = params.credentialType
        /\ payload["change_type"] = params.changeType
        /\ params.changeType \in AllowedChangeTypes
        /\ \A k \in DOMAIN OptionalKeys :
             OptionalKeys[k] \in DOMAIN payload <=> ~Absent(params[k])
        /\ \A key \in DOMAIN payload : payload[key].t # "undefined"
        /\ DOMAIN payload \subseteq
             {"event_timestamp", "credential_type", "change_type"}
             \cup {OptionalKeys[k] : k \in DOMAIN OptionalKeys}
        /\ {"event_timestamp", "credential_type", "change_type"} \subseteq DOMAIN payload

\* A payload was built with two optional parameters given and the others
\* missing: it has their two keys and the three that are always there.
C9_Witness ==
  /\ set.built
  /\ Truthy(params.friendlyName) /\ Truthy(params.reasonUser)
  /\ \A k \in DOMAIN OptionalKeys \ {"friendlyName", "reasonUser"} : params[k] = Undefined
  /\ DOMAIN set.claims.events.payload =
       {"event_timestamp", "credential_type", "change_type", "friendly_name", "reason_user"}

\* C10: the payload's event_timestamp is the caller's eventTimestamp for
\* every integer supplied, and the current time in seconds only when none
\* is supplied.
C10_TimestampIsCallers ==
  set.built =>
    LET ts == set.claims.events.payload["event_timestamp"]
    IN  IF params.eventTimestamp.t = "number"
          THEN ts = params.eventTimestamp
          ELSE ts \in {Num(ms \div 1000) : ms \in ClockReadings}

\* C11: for a truthy reasonAdmin or reasonUser the payload holds the parsed
\* value when the string is the JSON text of an object and the original
\* string in every other case, so the value is always the original string
\* or an object (the locale mapping).
C11_ReasonIsStringOrMapping ==
  set.built =>
    \A k \in {"reasonAdmin", "reasonUser"} :
      Truthy(params[k]) =>
        LET value  == set.claims.events.payload[OptionalKeys[k]]
            parsed == JSONParse(params[k].v)
        IN  /\ IF parsed.ok /\ parsed.val.t = "object"
                 THEN value = parsed.val
                 ELSE value = params[k]
            /\ value = params[k] \/ value.t = "object"

\* C13: the sub_id of a built token is a JSON object, and a call whose
\* subject is not the JSON text of an object raises an error with no token
\* built and no request sent.
C13_SubIdIsObject ==
  /\ set.built => set.claims.sub_id.t = "object"
  /\ InvokeCalled /\ params.subject.t = "string" =>
       LET parsed == JSONParse(params.subject.v)
       IN  ~(parsed.ok /\ parsed.val.t = "object") =>
             /\ ~set.built
             /\ requests = <<>>
             /\ result.kind = "raised"

\* Everything call c holds.
CallState(c) ==
  <<pc[c], params[c], context[c], set[c], requests[c], response[c], result[c],
    errIn[c], errOut[c]>>

\* C12, in every state: what call c raised or returned and what it sent is
\* given by its own params, its own context, the clock reading it took and
\* the response to its own request, whatever the other calls are doing.
C12_OwnInputsDecide ==
  \A c \in Calls :
    IF pc[c] = "idle"
      THEN CallState(c) = <<"idle", NoParams, NoContext, NoSet, <<>>, NoResponse,
                            None, None, None>>
      ELSE
        LET p == params[c]
            secrets == context[c].secrets
            own == TransmitRequest(
                     Jwt(set[c]),
                     buildUrl(p.address.v, p.addressSuffix),
                     [authToken |-> secrets.AUTH_TOKEN, userAgent |-> p.userAgent])
        IN  /\ pc[c] = "rejected" <=> ValidationErrors(p, secrets) # {}
            /\ pc[c] = "rejected" =>
                 /\ set[c] = NoSet
                 /\ result[c].kind = "raised"
                 /\ result[c].error \in ValidationErrors(p, secrets)
            /\ pc[c] # "rejected" =>
                 /\ set[c].built
                 /\ \E o \in parseSubject(p.subject.v), nowMs \in ClockReadings :
                      set[c].claims = SetClaims(p, o.value, nowMs)
                 /\ set[c].signingKey = SigningKey(p, secrets)
            /\ requests[c] = IF pc[c] \in {"fetching", "fetchFailed", "responded"}
                               THEN <<own>> ELSE <<>>
            /\ response[c].received <=> pc[c] = "responded"
            /\ pc[c] = "responded" => result[c] = TransmitOutcome(response[c])
            /\ pc[c] \in {"signing", "fetching"} => result[c] = None
            /\ pc[c] \in {"signFailed", "fetchFailed"} => result[c].kind = "raised"
            /\ errOut[c] # None =>
                 /\ result[c].kind = "raised"
                 /\ errIn[c] = result[c].error
                 /\ errOut[c] = ErrorOutcome(result[c].error)

\* C12, in every step: a call in flight keeps its params and its context
\* (the secrets) as they were handed to it, a step of one call, of the error
\* handler for it or of halt leaves what every other call holds as it is,
\* and halt changes no call.
C12_Step ==
  /\ \A c \in Calls :
       pc[c] # "idle" /\ pc'[c] # "idle" =>
         params'[c] = params[c] /\ context'[c] = context[c]
  /\ \A c \in Calls, d \in Calls :
       c # d /\ CallState(c)' # CallState(c) => CallState(d)' = CallState(d)
  /\ haltOut' # haltOut => \A c \in Calls : CallState(c)' = CallState(c)

\* C12: invocations are independent, for every interleaving of invoke,
\* error-handler and halt calls: each call's outcome, URL, headers and
\* number of requests are decided by its own params, context and response,
\* and no call changes its params, its secrets or what another call holds.
C12_InvocationsIndependent == []C12_OwnInputsDecide /\ [][C12_Step]_vars

\* Two calls with different secrets and receivers overlapped, halt was
\* called meanwhile and the error handler ran for the first: the first got a
\* 503 for its request without Authorization, the second awaits the answer
\* to its request with its own token.
C12_Witness ==
  /\ pc[1] = "responded" /\ response[1].status = 503
  /\ errOut[1] = [kind |-> "returned", value |-> [status |-> "retry_requested"]]
  /\ pc[2] = "fetching"
  /\ haltOut # None
  /\ context[1].secrets.AUTH_TOKEN = Undefined
  /\ context[2].secrets.AUTH_TOKEN = Str(<<"t">>)
  /\ "Authorization" \notin DOMAIN requests[1][1].headers
  /\ requests[2][1].headers["Authorization"] = <<"B", "e", "a", "r", "e", "r", " ", "t">>
  /\ requests[1][1].url # requests[2][1].url

=============================================================================
